---- MODULE Spec2Model ----
(***************************************************************************)
(* Model of app.py: a document store (the books/ directory), a full-text   *)
(* index over it, and the request handlers that keep the two in step:      *)
(* home, upload, search, delete and the forced re-index.                   *)
(*                                                                         *)
(* File names and titles are sequences of character codes, so that the     *)
(* case folding of the extension test, splitext and the code-point order   *)
(* of the title sort are computed and not assumed.  A text is a sequence   *)
(* of tokens, a token being one word or one run of whitespace (" ").       *)
(*                                                                         *)
(* The index is the sequence of its records in document order.  It is      *)
(* taken to open without error (create_or_open_index returns the index on  *)
(* disk), and no handler fails on I/O.  The third-party search is reduced  *)
(* to what the handlers rely on: a record matches a query when it holds    *)
(* all its words, hits come best first, and the searcher reads the index   *)
(* as it was when the searcher was opened.                                 *)
(***************************************************************************)
EXTENDS Integers, Sequences, FiniteSets, TLC

VARIABLES store, index, now, last

vars == <<store, index, now, last>>

(* ---------------------------- bounds ----------------------------------- *)

\* most records the index holds in the small specification
MaxIndex == 2
\* last tick of the clock
MaxTime == 2
\* ticks in one calendar day
TicksPerDay == 2

(* ------------------------ program constants ---------------------------- *)

\* searcher.search(query, limit=100)
Limit == 100
\* per_page = 5
per_page == 5

(* --------------------------- characters -------------------------------- *)

Dot == 46

\* str.lower() on one character code (ASCII letters)
LowerChar(c) == IF c \in 65..90 THEN c + 32 ELSE c

\* str.lower()
Lower(s) == [i \in 1..Len(s) |-> LowerChar(s[i])]

\* str.endswith(suffix)
EndsWith(s, suffix) ==
    /\ Len(s) >= Len(suffix)
    /\ SubSeq(s, Len(s) - Len(suffix) + 1, Len(s)) = suffix

\* the literal '.pdf'
PdfExt == <<46, 112, 100, 102>>

\* filename.lower().endswith('.pdf')
IsPdfName(filename) == EndsWith(Lower(filename), PdfExt)

\* os.path.splitext(filename)[0] for a name without directory separators:
\* cut at the last dot, unless only dots come before it
Title(filename) ==
    LET dots == {i \in 1..Len(filename) : filename[i] = Dot}
    IN  IF dots = {} THEN filename
        ELSE LET dotIndex == CHOOSE i \in dots : \A j \in dots : j <= i
             IN  IF \E k \in 1..(dotIndex - 1) : filename[k] # Dot
                 THEN SubSeq(filename, 1, dotIndex - 1)
                 ELSE filename

\* Python's str < str: lexicographic by character code, a proper prefix first
StrLess(s, t) ==
    \E k \in 1..(Len(t)) :
        /\ \A j \in 1..(k - 1) : j <= Len(s) /\ s[j] = t[j]
        /\ \/ k = Len(s) + 1
           \/ k <= Len(s) /\ s[k] < t[k]

(* ------------------------------ inputs --------------------------------- *)

\* "a.pdf"
NameA == <<97, 46, 112, 100, 102>>
\* "B.PDF"
NameB == <<66, 46, 80, 68, 70>>
\* "n.txt"
NameTxt == <<110, 46, 116, 120, 116>>
\* ""
NameEmpty == <<>>

Names == {NameA, NameB, NameTxt, NameEmpty}

\* a PDF the reader cannot open
BodyCorrupt == [ok |-> FALSE, pages |-> <<>>]
\* one page holding only whitespace (a scanned image)
BodyBlank == [ok |-> TRUE, pages |-> << <<" ">> >>]
\* one page, "fox"
BodyFox == [ok |-> TRUE, pages |-> << <<"fox">> >>]
\* two pages, " dog  fox" and "fox "
BodyDogFox == [ok |-> TRUE, pages |-> << <<" ", "dog", " ", " ", "fox">>, <<"fox", " ">> >>]

Bodies == {BodyCorrupt, BodyBlank, BodyFox, BodyDogFox}

\* the category field of an upload form
Categories == {"Fiction"}

Queries == {<<"fox">>, <<"dog">>, <<" ">>}

SortKeys == {"relevance", "title", "date"}

\* the upload forms sent: one without a file part, the others with a file
\* and the category request.form.get('category', 'Uncategorized') yields
UploadRequests ==
    {[has_file |-> FALSE]} \cup
    [has_file : {TRUE}, filename : Names, body : Bodies,
     category : Categories]

\* the page a search of the small library asks for (its results fill less
\* than one page; later pages are asked for in SpecCap and SpecPage)
Pages == {1}

(* ------------------------- text extraction ----------------------------- *)

RECURSIVE JoinPages(_)
\* " ".join(page.extract_text() or "" for page in reader.pages)
JoinPages(pages) ==
    IF Len(pages) = 0 THEN <<>>
    ELSE IF Len(pages) = 1 THEN pages[1]
    ELSE pages[1] \o <<" ">> \o JoinPages(Tail(pages))

RECURSIVE Collapse(_)
\* re.sub(r'\s+', ' ', text): every run of whitespace becomes one space
Collapse(text) ==
    IF Len(text) <= 1 THEN text
    ELSE IF text[1] = " " /\ text[2] = " " THEN Collapse(Tail(text))
    ELSE <<text[1]>> \o Collapse(Tail(text))

\* str.strip() of a text whose whitespace runs are already single spaces
Strip(text) ==
    LET a == IF Len(text) > 0 /\ text[1] = " " THEN 2 ELSE 1
        b == IF Len(text) > 0 /\ text[Len(text)] = " " THEN Len(text) - 1 ELSE Len(text)
    IN  SubSeq(text, a, b)

extract_text_from_pdf(body) ==
    IF body.ok THEN Strip(Collapse(JoinPages(body.pages))) ELSE <<>>

\* len(PdfReader(pdf_path).pages)
PageCount(body) == Len(body.pages)

(* ------------------------------ clock ---------------------------------- *)

\* strftime('%Y-%m-%d'): the calendar day of a timestamp
FormatDate(t) == t \div TicksPerDay

\* datetime.strptime(d, '%Y-%m-%d'): midnight of that day
ParseDate(d) == d * TicksPerDay

(* --------------------------- document store ---------------------------- *)

\* os.path.exists(os.path.join(BOOKS_DIR, filename))
Exists(st, filename) == filename \in DOMAIN st

\* file.save(filepath)
Save(st, filename, body) ==
    [f \in DOMAIN st \cup {filename} |-> IF f = filename THEN body ELSE st[f]]

\* os.remove(filepath)
Remove(st, filename) == [f \in DOMAIN st \ {filename} |-> st[f]]

\* os.listdir(BOOKS_DIR): every name once, in an order the file system picks
ListDir(st) ==
    {ord \in [1..Cardinality(DOMAIN st) -> DOMAIN st] :
        \A i, j \in DOMAIN ord : i # j => ord[i] # ord[j]}

(* ------------------------------- index --------------------------------- *)

\* the arguments of writer.add_document
Document(filename, body, category, t) ==
    [title      |-> Title(filename),
     content    |-> extract_text_from_pdf(body),
     path       |-> filename,
     page_count |-> PageCount(body),
     category   |-> category,
     date_added |-> t]

\* an add_document that loses the record
add_document_Lost(ix, doc) == ix

\* writer.add_document: appends, whatever the index already holds
add_document(ix, doc) == Append(ix, doc)

\* a delete_by_term that leaves the index alone
delete_by_term_None(ix, filename) == ix

\* a delete_by_term that removes the first record with that path only
delete_by_term_First(ix, filename) ==
    LET found == {i \in 1..Len(ix) : ix[i].path = filename}
    IN  IF found = {} THEN ix
        ELSE LET k == CHOOSE i \in found : \A j \in found : i <= j
             IN  SubSeq(ix, 1, k - 1) \o SubSeq(ix, k + 1, Len(ix))

\* writer.delete_by_term('path', filename): every record with that path
delete_by_term(ix, filename) ==
    LET Keep(doc) == doc.path # filename
    IN  SelectSeq(ix, Keep)

RECURSIVE IndexFiles(_, _, _, _)
\* the loop of index_books over one directory listing
IndexFiles(ix, st, listing, t) ==
    IF Len(listing) = 0 THEN ix
    ELSE LET filename == Head(listing)
             content == extract_text_from_pdf(st[filename])
             next == IF IsPdfName(filename) /\ content # <<>>
                     THEN add_document(ix, Document(filename, st[filename], "Uncategorized", t))
                     ELSE ix
         IN  IndexFiles(next, st, Tail(listing), t)

\* index_books(ix): the index after the scan
index_books(ix, st, listing, t) == IndexFiles(ix, st, listing, t)

(* ------------------------------- query --------------------------------- *)

\* the words of a text
Terms(text) == {text[i] : i \in 1..Len(text)} \ {" "}

\* occurrences of a word in a text
Occurrences(text, term) == Cardinality({i \in 1..Len(text) : text[i] = term})

RECURSIVE SumOccurrences(_, _)
SumOccurrences(text, terms) ==
    IF terms = {} THEN 0
    ELSE LET term == CHOOSE x \in terms : TRUE
         IN  Occurrences(text, term) + SumOccurrences(text, terms \ {term})

\* a document matches when it holds every word of the query
Matches(doc, query_str) ==
    /\ Terms(query_str) # {}
    /\ Terms(query_str) \subseteq Terms(doc.content)

\* the weight of a hit: how often the query's words occur in the content
Score(doc, query_str) == SumOccurrences(doc.content, Terms(query_str))

RECURSIVE ByScore(_, _)
\* hits of weight s, s-1, .., 1, each group in document order
ByScore(hits, s) ==
    IF s = 0 THEN <<>>
    ELSE LET Has(h) == h.score = s
         IN  SelectSeq(hits, Has) \o ByScore(hits, s - 1)

\* searcher.search(query, limit=100) on the snapshot the searcher holds:
\* the matching documents, best first, equal weights in document order,
\* cut at the limit
searcher_search(snapshot, query_str, limit) ==
    LET all == [d \in 1..Len(snapshot) |->
                   [docnum |-> d, score |-> Score(snapshot[d], query_str)]]
        Hit(h) == Matches(snapshot[h.docnum], query_str)
        hits == SelectSeq(all, Hit)
        scores == {hits[i].score : i \in 1..Len(hits)}
        top == IF scores = {} THEN 0
               ELSE CHOOSE s \in scores : \A t \in scores : t <= s
        ranked == ByScore(hits, top)
    IN  SubSeq(ranked, 1, IF Len(ranked) < limit THEN Len(ranked) ELSE limit)

\* one entry of search_results; docnum (Hit.docnum) is kept beside the
\* rendered fields to tell which record an entry was made from
ResultEntry(snapshot, hit) ==
    LET doc == snapshot[hit.docnum]
    IN  [title      |-> doc.title,
         path       |-> doc.path,
         score      |-> hit.score,
         snippet    |-> doc.content,
         category   |-> doc.category,
         date_added |-> FormatDate(doc.date_added),
         docnum     |-> hit.docnum]

\* the order key of list.sort: TRUE when x has to come before y
KeyBefore(sort_by, x, y) ==
    IF sort_by = "title" THEN StrLess(x.title, y.title)
    ELSE ParseDate(x.date_added) > ParseDate(y.date_added)

RECURSIVE ListSort(_, _)
\* list.sort(key=.., reverse=..): stable, equal keys keep their order
ListSort(results, sort_by) ==
    IF Len(results) = 0 THEN <<>>
    ELSE LET init == ListSort(SubSeq(results, 1, Len(results) - 1), sort_by)
             x == results[Len(results)]
             pos == Cardinality({i \in 1..Len(init) : ~KeyBefore(sort_by, x, init[i])})
         IN  SubSeq(init, 1, pos) \o <<x>> \o SubSeq(init, pos + 1, Len(init))

\* the sort_by branches of search
SortResults(search_results, sort_by) ==
    IF sort_by = "title" THEN ListSort(search_results, "title")
    ELSE IF sort_by = "date" THEN ListSort(search_results, "date")
    ELSE search_results

\* seq[start:end] for 0 <= start
Slice(seq, start, end) ==
    SubSeq(seq, start + 1, IF end < Len(seq) THEN end ELSE Len(seq))

\* a page cut that starts one page late
Paginate_PageLate(search_results, page) ==
    LET start == page * per_page
        end == start + per_page
    IN  [paginated_results |-> Slice(search_results, start, end),
         total_pages       |-> (Len(search_results) + per_page - 1) \div per_page]

\* the page cut and the page count of search
Paginate(search_results, page) ==
    LET start == (page - 1) * per_page
        end == start + per_page
    IN  [paginated_results |-> Slice(search_results, start, end),
         total_pages       |-> (Len(search_results) + per_page - 1) \div per_page]

(* ----------------------------- handlers -------------------------------- *)

\* home(): the names the list shows, for one directory listing
raw_books(listing) ==
    LET Shown(f) == IsPdfName(f)
    IN  SelectSeq(listing, Shown)

Home ==
    /\ \E listing \in ListDir(store) :
           last' = [op |-> "home", books |-> raw_books(listing)]
    /\ UNCHANGED <<store, index, now>>

\* an upload() that indexes whatever the extraction returned
UploadOutcome_NoTextCheck(st, req) ==
    IF ~req.has_file THEN "no_file"
    ELSE IF req.filename = <<>> \/ ~IsPdfName(req.filename) THEN "invalid"
    ELSE IF Exists(st, req.filename) THEN "exists"
    ELSE "indexed"

\* an upload() that saves over a file already stored
UploadOutcome_NoExistsCheck(st, req) ==
    IF ~req.has_file THEN "no_file"
    ELSE IF req.filename = <<>> \/ ~IsPdfName(req.filename) THEN "invalid"
    ELSE IF extract_text_from_pdf(req.body) # <<>> THEN "indexed"
    ELSE "no_text"

\* what upload() does with a request: the branch it ends in
UploadOutcome(st, req) ==
    IF ~req.has_file THEN "no_file"
    ELSE IF req.filename = <<>> \/ ~IsPdfName(req.filename) THEN "invalid"
    ELSE IF Exists(st, req.filename) THEN "exists"
    ELSE IF extract_text_from_pdf(req.body) # <<>> THEN "indexed"
    ELSE "no_text"

\* upload()
Upload(req) ==
    LET outcome == UploadOutcome(store, req)
    IN  /\ store' = IF outcome = "indexed" THEN Save(store, req.filename, req.body)
                    ELSE IF outcome = "no_text"
                         THEN Remove(Save(store, req.filename, req.body), req.filename)
                         ELSE store
        /\ index' = IF outcome = "indexed"
                    THEN add_document(index,
                             Document(req.filename, req.body, req.category, now))
                    ELSE index
        /\ last' = IF req.has_file
                   THEN [op |-> "upload", has_file |-> TRUE, filename |-> req.filename,
                         content |-> extract_text_from_pdf(req.body), outcome |-> outcome]
                   ELSE [op |-> "upload", has_file |-> FALSE, outcome |-> outcome]
        /\ UNCHANGED now

\* a delete() that takes a missing file for a deleted one
Delete_IgnoreMissing(filename) ==
    /\ store' = Remove(store, filename)
    /\ index' = delete_by_term(index, filename)
    /\ last' = [op |-> "delete", filename |-> filename, outcome |-> "deleted"]
    /\ UNCHANGED now

\* delete(filename)
Delete(filename) ==
    /\ IF Exists(store, filename)
       THEN /\ store' = Remove(store, filename)
            /\ index' = delete_by_term(index, filename)
            /\ last' = [op |-> "delete", filename |-> filename, outcome |-> "deleted"]
       ELSE /\ UNCHANGED <<store, index>>
            /\ last' = [op |-> "delete", filename |-> filename, outcome |-> "not_found"]
    /\ UNCHANGED now

\* index_books_route()
Reindex ==
    /\ \E listing \in ListDir(store) :
           /\ index' = index_books(index, store, listing, now)
           /\ last' = [op |-> "reindex", num_indexed |-> Len(index') - Len(index)]
    /\ UNCHANGED <<store, now>>

\* not query_str.strip()
Blank(query_str) == Strip(Collapse(query_str)) = <<>>

\* the first execution of the query in search() has no hit
NoHit(snapshot, query_str) == Len(searcher_search(snapshot, query_str, Limit)) = 0

\* what search() renders.  The searcher is opened on the index as it is on
\* entry and is not refreshed: the execution of the query that follows the
\* re-index reads the same snapshot as the first one
SearchResponse(snapshot, query_str, sort_by, page) ==
    LET results == searcher_search(snapshot, query_str, Limit)
        search_results == [i \in 1..Len(results) |-> ResultEntry(snapshot, results[i])]
        sorted == SortResults(search_results, sort_by)
        cut == Paginate(sorted, page)
    IN  [op |-> "search", query |-> query_str, outcome |-> "ok",
         sort_by |-> sort_by, page |-> page,
         reindexed |-> NoHit(snapshot, query_str),
         hits |-> search_results,
         search_results |-> sorted,
         paginated_results |-> cut.paginated_results,
         total_pages |-> cut.total_pages]

\* search()
Search(query_str, sort_by, page) ==
    IF Blank(query_str)
    THEN /\ last' = [op |-> "search", query |-> query_str, outcome |-> "blank"]
         /\ UNCHANGED <<store, index, now>>
    ELSE /\ IF NoHit(index, query_str)
            THEN \E listing \in ListDir(store) :
                     index' = index_books(index, store, listing, now)
            ELSE index' = index
         /\ last' = SearchResponse(index, query_str, sort_by, page)
         /\ UNCHANGED <<store, now>>

\* time passes between two requests
Tick ==
    /\ now < MaxTime
    /\ now' = now + 1
    /\ UNCHANGED <<store, index, last>>

(* --------------------------- specification ----------------------------- *)

\* the files found in books/ when the server starts
StartStores ==
    {st \in UNION {[S -> {BodyBlank, BodyFox}] : S \in SUBSET {NameA, NameTxt}} :
        NameTxt \in DOMAIN st => st[NameTxt] = BodyFox}

\* the records one scan of the store adds
Scanned(st) ==
    Cardinality({f \in DOMAIN st : IsPdfName(f) /\ extract_text_from_pdf(st[f]) # <<>>})

\* a search for this query finds nothing in the index and scans the store
Rescans(query_str) == ~Blank(query_str) /\ NoHit(index, query_str)

Init ==
    /\ store \in StartStores
    /\ index = <<>>
    /\ now = 0
    /\ last = [op |-> "start"]

Next ==
    \/ Home
    \/ \E req \in UploadRequests :
           /\ Len(index) < MaxIndex
           /\ Upload(req)
    \/ \E filename \in Names \ {NameEmpty} : Delete(filename)
    \/ /\ Len(index) + Scanned(store) <= MaxIndex
       /\ Reindex
    \/ \E query_str \in Queries, sort_by \in SortKeys, page \in Pages :
           /\ Rescans(query_str) => Len(index) + Scanned(store) <= MaxIndex
           /\ Search(query_str, sort_by, page)
    \/ Tick

Spec == Init /\ [][Next]_vars

(* ------------------ a library that outgrows the limit ------------------ *)
(* The same handlers on a library that grows until more records match a   *)
(* query than one search returns: the volumes of a series, each with the  *)
(* text "fox", are uploaded one after the other and withdrawn last one    *)
(* first.  The list is asked for while the store is small; scans of the   *)
(* store and the clock are followed in Spec.                              *)

\* records the index holds at most: one more than a search returns
CapIndex == Limit + 1

\* "v001.pdf", "v002.pdf", ..
Vol(k) == <<118, 48 + (k \div 100), 48 + ((k \div 10) % 10), 48 + (k % 10)>> \o PdfExt

\* the upload form of volume k
VolumeRequest(k) ==
    [has_file |-> TRUE, filename |-> Vol(k), body |-> BodyFox, category |-> "Fiction"]

\* the volumes in the store
Shelf == Cardinality(DOMAIN store)

\* the first and the last full page of a search
CapPages == {1, Limit \div per_page}

InitCap ==
    /\ store = <<>>
    /\ index = <<>>
    /\ now = 0
    /\ last = [op |-> "start"]

NextCap ==
    \/ /\ Shelf <= 2
       /\ Home
    \/ \E k \in {1, Shelf + 1} :
           /\ k <= CapIndex
           /\ Upload(VolumeRequest(k))
    \/ /\ Shelf >= 1
       /\ Delete(Vol(Shelf))
    \/ \E page \in CapPages : Search(<<"fox">>, "relevance", page)

SpecCap == InitCap /\ [][NextCap]_vars

(* ----------------------- pagination on its own ------------------------ *)

\* last page number asked for
MaxPage == 22

\* a sorted result list of n entries, entry i being the i-th best
SortedList(n) == [i \in 1..n |-> [docnum |-> i]]

\* the tail of search() on the result list and the page number drawn
PaginateStep ==
    /\ last.op = "request"
    /\ last' = [op |-> "paginate", n |-> last.n, page |-> last.page,
                cut |-> Paginate(SortedList(last.n), last.page)]
    /\ UNCHANGED <<store, index, now>>

InitPage ==
    /\ store = <<>>
    /\ index = <<>>
    /\ now = 0
    /\ last \in [op : {"request"}, n : 0..Limit, page : 1..MaxPage]

NextPage == PaginateStep

SpecPage == InitPage /\ [][NextPage]_vars

(* ------------------------------ claims --------------------------------- *)

\* the index records whose path is a given file name
RecordsOf(ix, filename) == {i \in 1..Len(ix) : ix[i].path = filename}

\* this step is a request that was answered (every handler rewrites last)
Answered(op) == last' # last /\ last'.op = op

\* how often a name is in a list
Count(seq, x) == Cardinality({i \in 1..Len(seq) : seq[i] = x})

\* this step is an upload of a file whose name ends in .pdf, is not in the
\* store yet, and whose extracted text is not empty
ValidUpload ==
    /\ Answered("upload")
    /\ last'.has_file
    /\ IsPdfName(last'.filename)
    /\ ~Exists(store, last'.filename)
    /\ last'.content # <<>>

\* this step is a request op that follows a valid upload
AfterValidUpload(op) ==
    /\ Answered(op)
    /\ last.op = "upload"
    /\ last.outcome = "indexed"

\* the step is a search for words of the text uploaded just before
SearchForUploaded ==
    /\ AfterValidUpload("search")
    /\ last'.outcome = "ok"
    /\ Terms(last'.query) \subseteq Terms(last.content)

\* the search of this step returns the file uploaded just before
FindsUploaded ==
    \E i \in 1..Len(last'.search_results) :
        last'.search_results[i].path = last.filename

\* C1 as stated: a valid upload ends with the file in the store, the list
\* handler lists it exactly once, and a following search for a term of its
\* content returns a result whose path is that file name.
C1_UploadedIsFound ==
    [][/\ ValidUpload => (last'.outcome = "indexed" /\ Exists(store', last'.filename))
       /\ AfterValidUpload("home") => Count(last'.books, last.filename) = 1
       /\ SearchForUploaded => FindsUploaded
      ]_vars

\* C1 as amended: a valid upload ends with the file in the store, the list
\* handler lists it exactly once, and a following search for a term of its
\* content returns a result whose path is that file name provided at most
\* 100 index records match the query (a search returns the 100 best hits).
C1_UploadedIsFoundWithinLimit ==
    [][/\ ValidUpload => (last'.outcome = "indexed" /\ Exists(store', last'.filename))
       /\ AfterValidUpload("home") => Count(last'.books, last.filename) = 1
       /\ (/\ SearchForUploaded
           /\ Cardinality({d \in 1..Len(index) : Matches(index[d], last'.query)}) <= Limit)
            => FindsUploaded
      ]_vars

\* a search of an index of exactly 100 matching records returns the record
\* added last as its 100th result
C1_Witness ==
    /\ last.op = "search"
    /\ last.outcome = "ok"
    /\ ~last.reindexed
    /\ Len(index) = Limit
    /\ Len(last.search_results) = Limit
    /\ last.search_results[Limit].docnum = Len(index)
    /\ Exists(store, last.search_results[Limit].path)

\* C2: path is unique across the index: no two index records have the same
\* path value, in every state reachable by upload, delete, search and forced
\* re-index requests.
C2_PathUnique ==
    \A i, j \in 1..Len(index) : i # j => index[i].path # index[j].path

\* C3: deleting a file name present in the store removes the store file and
\* every index record with that path, and a search afterwards has no hit for
\* it: a search that follows the delete, the re-index of a zero-hit search
\* included, and more generally any search made while the file is not stored.
C3_DeleteRemoves ==
    [][/\ (Answered("delete") /\ Exists(store, last'.filename))
            => /\ ~Exists(store', last'.filename)
               /\ RecordsOf(index', last'.filename) = {}
       /\ (Answered("search") /\ last'.outcome = "ok"
             /\ last.op = "delete" /\ last.outcome = "deleted")
            => /\ \A i \in 1..Len(last'.search_results) :
                      last'.search_results[i].path # last.filename
               /\ RecordsOf(index', last.filename) = {}
       /\ (Answered("search") /\ last'.outcome = "ok")
            => \A i \in 1..Len(last'.search_results) :
                   Exists(store', last'.search_results[i].path)
      ]_vars

\* a delete removed a file that had records, other records are still there
C3_Witness ==
    /\ last.op = "delete"
    /\ last.outcome = "deleted"
    /\ ~Exists(store, last.filename)
    /\ Len(index) > 0

\* C4: an upload of a .pdf file that gets as far as text extraction and whose
\* extraction yields the empty string (a page without text, or a reader error)
\* ends with no file of that name in the store and no index record for it; and
\* every index record has non-empty content.
C4_EmptyTextRolledBack ==
    [][/\ (/\ Answered("upload")
           /\ last'.has_file
           /\ last'.filename # <<>>
           /\ IsPdfName(last'.filename)
           /\ ~Exists(store, last'.filename)
           /\ last'.content = <<>>)
            => /\ ~Exists(store', last'.filename)
               /\ RecordsOf(index', last'.filename) = {}
       /\ \A i \in 1..Len(index') : index'[i].content # <<>>
      ]_vars

\* an upload without text was rolled back while the index holds records
C4_Witness ==
    /\ last.op = "upload"
    /\ last.has_file
    /\ last.outcome = "no_text"
    /\ ~Exists(store, last.filename)
    /\ Len(index) > 0

\* C5: an upload rejected by validation (no file part, empty file name, name
\* not ending in .pdf whatever the letter case, or name already present in the
\* store) changes nothing: the stored files, their contents and the index
\* records are the same after it.
C5_RejectedUploadChangesNothing ==
    [][(/\ Answered("upload")
        /\ \/ ~last'.has_file
           \/ last'.filename = <<>>
           \/ ~EndsWith(Lower(last'.filename), PdfExt)
           \/ Exists(store, last'.filename))
         => /\ store' = store
            /\ index' = index
      ]_vars

\* an upload under a name already stored was answered
C5_Witness ==
    /\ last.op = "upload"
    /\ last.has_file
    /\ last.outcome = "exists"
    /\ Exists(store, last.filename)
    /\ last.content # <<>>
    /\ extract_text_from_pdf(store[last.filename]) # last.content

SameEntries(s, t) ==
    /\ Len(s) = Len(t)
    /\ \A i \in 1..Len(s) :
           Cardinality({j \in 1..Len(s) : s[j] = s[i]})
               = Cardinality({j \in 1..Len(t) : t[j] = s[i]})

\* C7: with sort_by=title the results are in lexicographic title order; with
\* sort_by=date they are most-recent-first by the date_added of their records;
\* with any other sort_by the relevance order of the index is kept.
C7_SortOrders ==
    (last.op = "search" /\ last.outcome = "ok") =>
        LET sr == last.search_results
        IN  /\ SameEntries(sr, last.hits)
            /\ last.sort_by = "title" =>
                   \A i, j \in 1..Len(sr) : i < j => ~StrLess(sr[j].title, sr[i].title)
            /\ last.sort_by = "date" =>
                   \A i, j \in 1..Len(sr) : i < j =>
                       index[sr[i].docnum].date_added >= index[sr[j].docnum].date_added
            /\ last.sort_by \notin {"title", "date"} => sr = last.hits

\* the least k with k * d >= n
Ceiling(n, d) == CHOOSE k \in 0..n : k * d >= n /\ \A m \in 0..(k - 1) : m * d < n

\* C8: for a sorted result list of length n (0 <= n <= 100) and a page
\* p >= 1 the handler returns exactly the items at the 1-based positions
\* 5(p-1)+1 .. min(5p, n) of the list, and total_pages is ceiling(n / 5).
C8_Pagination ==
    last.op = "paginate" =>
        LET n == last.n
            p == last.page
            lo == 5 * (p - 1) + 1
            hi == IF 5 * p < n THEN 5 * p ELSE n
            got == last.cut.paginated_results
        IN  /\ Len(got) = (IF hi >= lo THEN hi - lo + 1 ELSE 0)
            /\ \A k \in 1..Len(got) : got[k] = SortedList(n)[lo + k - 1]
            /\ last.cut.total_pages = Ceiling(n, 5)

\* page 2 of a list of twelve: items 6 to 10, three pages
C8_Witness ==
    /\ last.op = "paginate"
    /\ last.n = 12
    /\ last.page = 2
    /\ Len(last.cut.paginated_results) = 5
    /\ last.cut.paginated_results[1].docnum = 6
    /\ last.cut.paginated_results[5].docnum = 10
    /\ last.cut.total_pages = 3

\* C9: a search with a non-blank query whose first execution has a hit runs no
\* re-index and leaves the index unchanged; one with zero hits runs one full
\* re-index of the store, and the results it returns are those of the query
\* over the index as it is after that re-index.
C9_RetryReadsRepairedIndex ==
    [][(Answered("search") /\ last'.outcome = "ok") =>
         LET first == searcher_search(index, last'.query, Limit)
             after == searcher_search(index', last'.query, Limit)
         IN  IF Len(first) > 0
             THEN /\ index' = index
                  /\ ~last'.reindexed
                  /\ last'.hits = [i \in 1..Len(first) |-> ResultEntry(index, first[i])]
             ELSE /\ last'.reindexed
                  /\ \E listing \in ListDir(store) :
                         index' = index_books(index, store, listing, now)
                  /\ last'.hits = [i \in 1..Len(after) |-> ResultEntry(index', after[i])]
      ]_vars

\* C10: every index record's path names a file present in the document store;
\* a stored file need not have a record.
C10_NoDanglingRecord ==
    \A i \in 1..Len(index) : Exists(store, index[i].path)

\* records exist, a delete has removed a file with its records, and a stored
\* PDF has no record
C10_Witness ==
    /\ last.op = "delete"
    /\ last.outcome = "deleted"
    /\ Len(index) > 0
    /\ \E f \in DOMAIN store : IsPdfName(f) /\ RecordsOf(index, f) = {}

====
